---- MODULE Spec2Model ----
(***************************************************************************)
(* The multiple-initiatives module (src/scripts/multiple-initiatives.js):  *)
(* three updateCombatant hooks (natural 20/1 adjustment, partitioning,     *)
(* natural 20 duplicate), the combatRound hook, and the host documents     *)
(* they read and write.                                                    *)
(*                                                                         *)
(* Numbers.  Initiative totals may carry the host's tie-breaker fraction   *)
(* (1% of the initiative modifier), so every initiative is kept in         *)
(* hundredths: the value 30 is the integer 3000.  Modifiers and settings   *)
(* are whole numbers.  JavaScript floating point error is not modelled.    *)
(*                                                                         *)
(* Scheduling.  A handler is an async function: the code up to its first   *)
(* await runs when the notification is delivered, and every later stretch  *)
(* of code between two awaits is a step.  A write (update, create, delete) *)
(* is requested by the handler in one step and applied by the host in a    *)
(* later step.  A stretch of code that reads nothing another step can      *)
(* change and writes only the handler's own locals is taken together with  *)
(* the step before it (a classification that comes out negative, the next  *)
(* round of the creation loop).  Time is not measured: any pending handler *)
(* may take the next step, except that of two timers the one that was not  *)
(* started later and has the shorter delay, or the same delay and the      *)
(* earlier start, expires first.  This orders the timers the handlers      *)
(* start when a notification is delivered (50 ms for hook 2, 300 ms for    *)
(* hooks 1 and 3); the later timers of a handler start at times the model  *)
(* does not know and are not ordered.                                      *)
(***************************************************************************)
EXTENDS Integers, FiniteSets, Sequences, TLC

VARIABLES
  registered,   \* the settings keys declared by the init hook
  settings,     \* the values of the settings
  isGM,         \* game.user.isGM of this session
  initMod,      \* actor -> actor.system.attributes.init.total
  tieBreaker,   \* the host adds the tie-breaker fraction to a rolled total
  limits,       \* how far this behaviour is followed (see Limits)
  combatants,   \* combat.combatants: the set of combatant documents
  deleted,      \* the combat document was deleted; combatants is then what
                \* the handlers still read from their reference to it
  started,      \* combat.started
  round,        \* combat.round
  notes,        \* the updateCombatant notifications delivered so far, each
                \* with the position and the locals of its three handlers
  roundTasks,   \* the combatRound handler instances
  rejects       \* the number of writes the host has rejected

vars == <<registered, settings, isGM, initMod, tieBreaker, limits,
          combatants, deleted, started, round, notes, roundTasks, rejects>>

\* what no handler changes
config == <<registered, settings, isGM, initMod, tieBreaker, limits>>

----------------------------------------------------------------------------
(* Bounds *)

NumOriginals == 2        \* combatants added to the combat by the user
MaxEvents == 2           \* initiative updates made by the user
MaxRound == 3            \* the combat is followed up to this round
MaxRejects == 1          \* writes the host may reject
MaxRenames == 1          \* combatant names the user edits
MaxDeletes == 1          \* original combatants the user deletes
MaxChanges == 1          \* actors whose initiative modifier changes

(* Program constants *)

PartitionCap == 10       \* Math.min(partitionCount, 10)
DuplicateBonus == 100    \* 100 + Math.max(...)
Scale == 100             \* initiatives are kept in hundredths

Unset == -1000000        \* initiative: null / updateData.initiative undefined
NoId == 0                \* flags.originalId undefined
NoMod == -1              \* actor?.system?.attributes?.init?.total undefined

Originals == 1..NumOriginals

----------------------------------------------------------------------------
(* Settings *)

\* Hooks.once("init"): the keys registered by scripts/multiple-initiatives.js
InitHookKeys ==
  {"enabled", "targetInitiative", "partitionCount", "partitionOffset"}

\* Hooks.once("init") of the earlier script, which also registers the
\* Natural20Boost and Natural1Debuff keys
EarlierInitHookKeys ==
  InitHookKeys \cup {"Natural20Boost", "Natural1Debuff"}

\* game.settings.get raises for a key that was never registered
CanGet(key) == key \in registered

----------------------------------------------------------------------------
(* Documents *)

\* A combatant added by the user: no module flags, initiative not rolled.
Original(c) ==
  [id |-> c, actor |-> c, initiative |-> Unset,
   isPartition |-> FALSE, natural20Duplicate |-> FALSE,
   originalId |-> NoId, partitionIndex |-> 0,
   natural20Applied |-> FALSE, natural1Applied |-> FALSE,
   nat20Name |-> FALSE, by |-> 0]

\* The ids the host gives to created documents (unique per creating
\* notification and index).
PartitionId(n, i) == 100 * n + i
DuplicateId(n) == 100 * n + 50

Ids == {e.id : e \in combatants}

\* combat.combatants.get(id)
Get(id) == CHOOSE e \in combatants : e.id = id

\* isPartition(combatant)
isPartition(e) == e.isPartition = TRUE

\* c.initiative || 0
InitiativeOr0(e) == IF e.initiative = Unset THEN 0 ELSE e.initiative

\* actor?.system?.attributes?.init?.total || 0
InitiativeMod(actor) == IF initMod[actor] = NoMod THEN 0 ELSE initMod[actor]

SetMax(S) == CHOOSE x \in S : \A y \in S : y <= x
SetMin(S) == CHOOSE x \in S : \A y \in S : x <= y
Min(a, b) == IF a <= b THEN a ELSE b

\* Math.round of a value given in hundredths (halves round up)
Round(v) == (v + 50) \div Scale

\* totalRoll - initiativeMod - (bonuses / 100), in hundredths
D20Value(total, mod) == total - Scale * mod - mod

\* Hook 1 (lines 130-132): the d20 value is not rounded
IsNat20Raw(total, mod) ==
  D20Value(total, mod) >= 20 * Scale /\ D20Value(total, mod) < 21 * Scale
IsNat1Raw(total, mod) ==
  D20Value(total, mod) < 2 * Scale /\ D20Value(total, mod) >= 1 * Scale

\* Hooks 2 and 3 (lines 208-209, 281-282): Math.round(...) first
IsNat20Rounded(total, mod) ==
  Round(D20Value(total, mod)) >= 20 /\ Round(D20Value(total, mod)) < 21

----------------------------------------------------------------------------
(* Notifications and handler instances                                     *)
(*                                                                         *)
(* notes[k] is a notification of the updateCombatant hooks: the k-th       *)
(* update made by the user for k in 1..MaxEvents, and for k > MaxEvents    *)
(* the notification of the update that hook 1 wrote while handling         *)
(* notification k - MaxEvents.  pc1, pc2, pc3 are the positions of the     *)
(* three handlers, the other fields are their locals.  seq is the place of *)
(* the notification in the order of delivery.  Three fields record history *)
(* and are read by no handler: h1AtSync (the position of hook 1 when hook  *)
(* 2 started its synchronization), made (the index and initiative of the   *)
(* partition entries hook 2 created) and createRejected (the host rejected *)
(* a creation of hook 2).                                                  *)

Keys == 1..(2 * MaxEvents)
UserKeys == 1..MaxEvents
FollowUp(n) == MaxEvents + n

NoNote ==
  [kind |-> "none", seq |-> 0, cid |-> NoId, actor |-> 0, total |-> Unset,
   fromPartition |-> FALSE, replayOf |-> 0,
   pc1 |-> "none", pc2 |-> "none", pc3 |-> "none",
   flag1 |-> "", value1 |-> 0, seen20 |-> FALSE, seen1 |-> FALSE,
   bonuses |-> 0, i |-> 0, ids |-> {}, value3 |-> 0,
   h1AtSync |-> "", made |-> {}, createRejected |-> FALSE]

Notes == {n \in Keys : notes[n].kind /= "none"}
UserNotes == Notes \cap UserKeys

\* Hook 1, lines 98-132: the guards, the two settings and the classification
Hook1Entry(e, total, fromPartition) ==
  IF ~isGM THEN "skip"
  ELSE IF ~settings.enabled THEN "skip"
  ELSE IF isPartition(e) \/ e.natural20Duplicate THEN "skip"
  ELSE IF total = Unset THEN "skip"
  ELSE IF fromPartition THEN "skip"
  ELSE IF ~(CanGet("Natural20Boost") /\ CanGet("Natural1Debuff")) THEN "throw"
  ELSE IF ~IsNat20Raw(total, InitiativeMod(e.actor))
          /\ ~IsNat1Raw(total, InitiativeMod(e.actor)) THEN "done"
  ELSE "pause300"

\* Variant: the threshold is compared with the rolled total, not with the
\* static bonus.
Hook2EntryByTotal(e, total, fromPartition) ==
  IF ~isGM THEN "skip"
  ELSE IF ~settings.enabled THEN "skip"
  ELSE IF isPartition(e) \/ e.natural20Duplicate THEN "skip"
  ELSE IF total = Unset THEN "skip"
  ELSE IF fromPartition THEN "skip"
  ELSE IF ~(total >= Scale * settings.targetInitiative) THEN "below"
  ELSE "pause50"

\* Hook 2, lines 173-214: the guards and the threshold test
Hook2Entry(e, total, fromPartition) ==
  IF ~isGM THEN "skip"
  ELSE IF ~settings.enabled THEN "skip"
  ELSE IF isPartition(e) \/ e.natural20Duplicate THEN "skip"
  ELSE IF total = Unset THEN "skip"
  ELSE IF fromPartition THEN "skip"
  ELSE IF ~(InitiativeMod(e.actor) >= settings.targetInitiative) THEN "below"
  ELSE "pause50"

\* Variant: hook 3 classifies the stored initiative of the combatant, not
\* the initiative of the update.
Hook3EntryByStored(e, total, fromPartition) ==
  IF ~isGM THEN "skip"
  ELSE IF e.initiative = Unset THEN "done"
  ELSE IF ~IsNat20Rounded(e.initiative, InitiativeMod(e.actor)) THEN "done"
  ELSE "pause300"

\* hook 3 without the test of game.user.isGM
Hook3EntryAnySession(e, total, fromPartition) ==
  IF total = Unset THEN "done"
  ELSE IF ~IsNat20Rounded(total, InitiativeMod(e.actor)) THEN "done"
  ELSE "pause300"

\* Hook 3, lines 272-289: the guard and the classification
Hook3Entry(e, total, fromPartition) ==
  IF ~isGM THEN "skip"
  ELSE IF total = Unset THEN "done"
  ELSE IF ~IsNat20Rounded(total, InitiativeMod(e.actor)) THEN "done"
  ELSE "pause300"

\* Hooks.callAll("updateCombatant", combatant, updateData, options)
UpdateNote(e, total, fromPartition, replayOf) ==
  [NoNote EXCEPT
     !.kind = "updateCombatant", !.seq = Cardinality(Notes) + 1,
     !.cid = e.id, !.actor = e.actor,
     !.total = total, !.fromPartition = fromPartition, !.replayOf = replayOf,
     !.bonuses = InitiativeMod(e.actor),
     !.pc1 = Hook1Entry(e, total, fromPartition),
     !.pc2 = Hook2Entry(e, total, fromPartition),
     !.pc3 = Hook3Entry(e, total, fromPartition)]

Set(n, r) == [notes EXCEPT ![n] = r]

\* the notifications delivered before notification n
Earlier(n) == {m \in Notes : notes[m].seq < notes[n].seq}

\* none of the timers started at the delivery of m is still running
NoTimer(m) ==
  /\ notes[m].pc1 /= "pause300"
  /\ notes[m].pc2 /= "pause50"
  /\ notes[m].pc3 /= "pause300"

\* the key of the next update made by the user
NextKey == Cardinality(UserNotes) + 1

----------------------------------------------------------------------------
(* Configurations and inputs *)

\* the d20 faces rolled: the two criticals, the face next to the natural 1,
\* and an ordinary one
Faces == {1, 2, 5, 20}

\* The settings of a world: the registered defaults (the loop passes indexes
\* whose value is not positive), the same with 3 turns (the README example),
\* a count above the cap with a small offset, and a threshold above every
\* actor's modifier.
Tuning ==
  {[targetInitiative |-> 21, partitionCount |-> 10, partitionOffset |-> 20],
   [targetInitiative |-> 21, partitionCount |-> 3, partitionOffset |-> 20],
   [targetInitiative |-> 21, partitionCount |-> 12, partitionOffset |-> 4],
   [targetInitiative |-> 60, partitionCount |-> 3, partitionOffset |-> 20]}

\* Natural20Boost and Natural1Debuff are Numbers without a range: next to
\* the defaults (10, 10) a world has a boost of 0 (the adjusted total is the
\* rolled one) and a debuff of -19 (a natural 1 is adjusted to a total whose
\* d20 face is 20).
SettingsSpace ==
  {[enabled |-> b, targetInitiative |-> t.targetInitiative,
    partitionCount |-> t.partitionCount, partitionOffset |-> t.partitionOffset,
    Natural20Boost |-> 10, Natural1Debuff |-> 10] : b \in BOOLEAN, t \in Tuning}
  \cup
  {[enabled |-> TRUE, targetInitiative |-> 21,
    partitionCount |-> 3, partitionOffset |-> 20,
    Natural20Boost |-> 0, Natural1Debuff |-> -19]}

\* the initiative modifiers of the actors: the first actor is above the
\* default threshold, the others have none (the handlers read 0)
ActorMod(c) == IF c = 1 THEN 50 ELSE NoMod

\* the modifiers the actors start with: those of the first actors (above
\* of them) are above the default threshold
InitialMod(l) ==
  [c \in Originals |-> IF c <= l.above THEN ActorMod(1) ELSE ActorMod(c)]

\* the totals a roll of the actor can give: modifier + d20 face, plus the
\* tie-breaker fraction (1% of the modifier) when the host adds it
Totals(actor) ==
  {Scale * (InitiativeMod(actor) + f)
     + (IF tieBreaker THEN InitiativeMod(actor) ELSE 0) : f \in Faces}

\* A behaviour follows either the updates of the user before the combat
\* starts, or one update fewer while the combat starts and advances.  With
\* a partition count above the cap (long creation loops) it follows one
\* update fewer before the combat starts.  Names are read by the combatRound
\* hook only (line 408): the edits of names are followed where rounds are.
\* The deletion of the combat or of a combatant is followed with one update
\* fewer and without rounds, a change of an actor's modifier without
\* rejected writes.  Where every combatant's actor is above the default
\* threshold (above = NumOriginals) no write is rejected either.
Limits(s) ==
  IF s.partitionCount > PartitionCap
  THEN {[events |-> MaxEvents - 1, rounds |-> 0, rejects |-> MaxRejects,
         renames |-> 0, deletes |-> 0, changes |-> 0, above |-> 1]}
  ELSE {[events |-> MaxEvents, rounds |-> 0, rejects |-> MaxRejects,
         renames |-> 0, deletes |-> 0, changes |-> 0, above |-> 1],
        [events |-> MaxEvents - 1, rounds |-> MaxRound, rejects |-> MaxRejects,
         renames |-> MaxRenames, deletes |-> 0, changes |-> 0, above |-> 1],
        [events |-> MaxEvents - 1, rounds |-> 0, rejects |-> MaxRejects,
         renames |-> 0, deletes |-> MaxDeletes, changes |-> 0, above |-> 1],
        [events |-> MaxEvents, rounds |-> 0, rejects |-> 0,
         renames |-> 0, deletes |-> 0, changes |-> MaxChanges, above |-> 1],
        [events |-> MaxEvents, rounds |-> 0, rejects |-> 0,
         renames |-> 0, deletes |-> 0, changes |-> 0,
         above |-> NumOriginals]}

Init ==
  /\ registered \in {InitHookKeys, EarlierInitHookKeys}
  /\ settings \in SettingsSpace
  /\ isGM \in BOOLEAN
  /\ tieBreaker \in BOOLEAN
  /\ limits \in Limits(settings)
  /\ initMod = InitialMod(limits)
  /\ combatants = {Original(c) : c \in Originals}
  /\ deleted = FALSE
  /\ started = FALSE
  /\ round = 0
  /\ notes = [n \in Keys |-> NoNote]
  /\ roundTasks = {}
  /\ rejects = 0

----------------------------------------------------------------------------
(* The user and the host *)

\* The user rolls or edits the initiative of an entry of the tracker: the
\* host stores the value and notifies the updateCombatant hooks.  An update
\* that changes nothing is not notified.
UpdateInitiative(id, total) ==
  /\ ~deleted
  /\ NextKey <= limits.events
  /\ id \in Ids
  /\ total /= Get(id).initiative
  /\ LET e == [Get(id) EXCEPT !.initiative = total] IN
       /\ combatants' = (combatants \ {Get(id)}) \cup {e}
       /\ notes' = Set(NextKey, UpdateNote(e, total, FALSE, 0))
  /\ UNCHANGED <<config, deleted, started, round, roundTasks, rejects>>

\* The same notification (same combatant, updateData and options) is
\* delivered to the hooks once more.
Replay(m) ==
  /\ ~deleted
  /\ NextKey <= limits.events
  /\ m \in UserNotes
  /\ notes[m].replayOf = 0
  /\ notes[m].cid \in Ids
  /\ notes' = Set(NextKey,
       UpdateNote(Get(notes[m].cid), notes[m].total, FALSE, m))
  /\ UNCHANGED <<config, deleted, combatants, started, round, roundTasks, rejects>>

\* the entries whose name was edited: a duplicate is created with a name that
\* contains "nat 20" (line 337), every other entry with one that does not
Renamed == {c \in combatants : c.nat20Name /= c.natural20Duplicate}

\* A user edits the name of a combatant in the tracker, to one that contains
\* "nat 20" or to one that does not.  The notification carries no initiative:
\* hooks 1 and 2 return at lines 113 and 188, hook 3 derives no d20 face of
\* 20 from it (lines 281-289); none of them writes.
Rename(id) ==
  /\ ~deleted
  /\ Cardinality(Renamed) < limits.renames
  /\ id \in Ids
  /\ combatants' = (combatants \ {Get(id)})
                      \cup {[Get(id) EXCEPT !.nat20Name = ~@]}
  /\ UNCHANGED <<config, deleted, started, round, notes, roundTasks, rejects>>

\* The handlers keep their reference to a combatant that is deleted: hook 1
\* reads combatant.flags after its pause (lines 135, 152).  The flags the
\* deleted documents had are kept in the locals of the handlers that will
\* read them.
Snapshot(removed) ==
  [n \in Keys |->
     IF notes[n].pc1 = "pause300" /\ \E e \in removed : e.id = notes[n].cid
     THEN LET e == CHOOSE d \in removed : d.id = notes[n].cid
          IN [notes[n] EXCEPT !.seen20 = e.natural20Applied,
                              !.seen1 = e.natural1Applied]
     ELSE notes[n]]

\* the combatant document a handler holds: the one in the combat, or the
\* deleted one
Subject(nt) ==
  IF nt.cid \in Ids THEN Get(nt.cid)
  ELSE [Original(nt.cid) EXCEPT !.natural20Applied = nt.seen20,
                                !.natural1Applied = nt.seen1]

\* A user deletes an original combatant from the combat.  The module has no
\* deleteCombatant hook.
DeleteCombatant(id) ==
  /\ ~deleted
  /\ id \in Originals \cap Ids
  /\ Cardinality(Originals \ Ids) < limits.deletes
  /\ combatants' = combatants \ {Get(id)}
  /\ notes' = Snapshot({Get(id)})
  /\ UNCHANGED <<config, deleted, started, round, roundTasks, rejects>>

\* Variant: the deleteCombat handler deletes the partition entries.
DeleteCombatCleaning ==
  /\ ~deleted
  /\ Cardinality(Originals \ Ids) < limits.deletes
  /\ deleted' = TRUE
  /\ roundTasks' = roundTasks \cup
        {[round |-> round, pc |-> "awaitDelete",
          ids |-> {c.id : c \in {d \in combatants : d.isPartition}}]}
  /\ UNCHANGED <<config, combatants, started, round, notes, rejects>>

\* A user deletes the combat; the host deletes its combatants with it and
\* calls the deleteCombat hook, which logs one line (lines 395-398).  The
\* handlers that are suspended keep their reference to the combat and to
\* its collection of combatants; the host rejects what they request from
\* then on.
DeleteCombat ==
  /\ ~deleted
  /\ Cardinality(Originals \ Ids) < limits.deletes
  /\ deleted' = TRUE
  /\ UNCHANGED <<config, combatants, started, round, notes, roundTasks, rejects>>

\* a handler of notification n is suspended
Pending(n) ==
  \/ notes[n].pc1 \in {"pause300", "awaitUpdate"}
  \/ notes[n].pc2 \in {"pause50", "awaitDelete", "awaitCreate"}
  \/ notes[n].pc3 \in {"pause300", "pause200", "awaitCreate"}

\* the actors whose modifier is not the one they started with
Changed == {c \in Originals : initMod[c] /= InitialMod(limits)[c]}

\* The initiative modifier of an actor falls to that of the other actors
\* (an effect ends): the handlers read it anew for every notification
\* (lines 128, 206, 279).  The change is followed while no handler is
\* suspended.
ChangeModifier(c) ==
  /\ ~deleted
  /\ Cardinality(Changed) < limits.changes
  /\ \A n \in Keys : ~Pending(n)
  /\ initMod[c] /= ActorMod(2)
  /\ initMod' = [initMod EXCEPT ![c] = ActorMod(2)]
  /\ UNCHANGED <<registered, settings, isGM, tieBreaker, limits, deleted,
                 combatants, started, round, notes, roundTasks, rejects>>

\* Combat.startCombat
StartCombat ==
  /\ ~deleted
  /\ ~started
  /\ limits.rounds > 0
  /\ started' = TRUE
  /\ round' = 1
  /\ UNCHANGED <<config, deleted, combatants, notes, roundTasks, rejects>>

----------------------------------------------------------------------------
(* Hook 1: natural 20 / natural 1 adjustment *)

\* The 300 ms timer of hook 1 expires after the 50 ms timer of hook 2 of the
\* same notification and after the timers of the earlier notifications.
Timer1Due(n) ==
  /\ notes[n].pc1 = "pause300"
  /\ notes[n].pc2 /= "pause50"
  /\ \A m \in Earlier(n) : NoTimer(m)

\* Variant: the boost is added to the stored initiative, with no flag test.
AdjustmentOfStored(nt, e) ==
  IF IsNat20Raw(nt.total, InitiativeMod(nt.actor))
  THEN [nt EXCEPT !.pc1 = "awaitUpdate", !.flag1 = "natural20Applied",
                  !.value1 = e.initiative + Scale * settings.Natural20Boost,
                  !.seen20 = e.natural20Applied,
                  !.seen1 = e.natural1Applied]
  ELSE IF IsNat1Raw(nt.total, InitiativeMod(nt.actor))
  THEN [nt EXCEPT !.pc1 = "awaitUpdate", !.flag1 = "natural1Applied",
                  !.value1 = e.initiative - Scale * settings.Natural1Debuff,
                  !.seen20 = e.natural20Applied,
                  !.seen1 = e.natural1Applied]
  ELSE [nt EXCEPT !.pc1 = "done"]

\* Variant: the adjustment is requested whatever the flags are.
AdjustmentEveryRoll(nt, e) ==
  IF IsNat20Raw(nt.total, InitiativeMod(nt.actor))
  THEN [nt EXCEPT !.pc1 = "awaitUpdate", !.flag1 = "natural20Applied",
                  !.value1 = nt.total + Scale * settings.Natural20Boost,
                  !.seen20 = e.natural20Applied,
                  !.seen1 = e.natural1Applied]
  ELSE IF IsNat1Raw(nt.total, InitiativeMod(nt.actor))
  THEN [nt EXCEPT !.pc1 = "awaitUpdate", !.flag1 = "natural1Applied",
                  !.value1 = nt.total - Scale * settings.Natural1Debuff,
                  !.seen20 = e.natural20Applied,
                  !.seen1 = e.natural1Applied]
  ELSE [nt EXCEPT !.pc1 = "done"]

\* lines 135-146 and 152-163: the request of the adjustment, or none
Adjustment(nt, e) ==
  IF IsNat20Raw(nt.total, InitiativeMod(nt.actor)) /\ ~e.natural20Applied
  THEN [nt EXCEPT !.pc1 = "awaitUpdate", !.flag1 = "natural20Applied",
                  !.value1 = nt.total + Scale * settings.Natural20Boost,
                  !.seen20 = e.natural20Applied,
                  !.seen1 = e.natural1Applied]
  ELSE IF IsNat1Raw(nt.total, InitiativeMod(nt.actor)) /\ ~e.natural1Applied
  THEN [nt EXCEPT !.pc1 = "awaitUpdate", !.flag1 = "natural1Applied",
                  !.value1 = nt.total - Scale * settings.Natural1Debuff,
                  !.seen20 = e.natural20Applied,
                  !.seen1 = e.natural1Applied]
  ELSE [nt EXCEPT !.pc1 = "done"]

\* lines 126-166: after the 300 ms pause, up to the await of
\* combatant.update
H1Adjust(n) ==
  /\ Timer1Due(n)
  /\ notes' = Set(n, Adjustment(notes[n], Subject(notes[n])))
  /\ UNCHANGED <<config, deleted, combatants, started, round, roundTasks, rejects>>

\* Variant: the flags of the request replace the flags of the document, and
\* the request carries the new flag only.
ReplacedFlags(e, nt) ==
  [e EXCEPT
     !.initiative = nt.value1,
     !.natural20Applied = (nt.flag1 = "natural20Applied"),
     !.natural1Applied = (nt.flag1 = "natural1Applied")]

\* Document.update: the data of the request is merged into the document
UpdatedDocument(e, nt) ==
  [e EXCEPT
     !.initiative = nt.value1,
     !.natural20Applied =
        e.natural20Applied \/ nt.seen20 \/ nt.flag1 = "natural20Applied",
     !.natural1Applied =
        e.natural1Applied \/ nt.seen1 \/ nt.flag1 = "natural1Applied"]

\* The host applies combatant.update(..., {fromPartition: true}) and
\* notifies the updateCombatant hooks with the fields that changed.
H1Updated(n) ==
  /\ ~deleted
  /\ notes[n].pc1 = "awaitUpdate"
  /\ notes[n].cid \in Ids
  /\ LET nt == notes[n]
         e == Get(nt.cid)
         e2 == UpdatedDocument(e, nt)
         changed == IF e2.initiative = e.initiative THEN Unset ELSE e2.initiative
         written == [nt EXCEPT !.pc1 = "written", !.seen20 = FALSE, !.seen1 = FALSE]
     IN /\ combatants' = (combatants \ {e}) \cup {e2}
        /\ notes' = IF e2 = e
                     THEN Set(n, written)
                     ELSE [Set(n, written) EXCEPT
                             ![FollowUp(n)] = UpdateNote(e2, changed, TRUE, 0)]
  /\ UNCHANGED <<config, deleted, started, round, roundTasks, rejects>>

\* The host rejects the update: the await raises and the handler ends.
H1UpdateRejected(n) ==
  /\ notes[n].pc1 = "awaitUpdate"
  /\ rejects < limits.rejects \/ deleted \/ notes[n].cid \notin Ids
  /\ rejects' = rejects + 1
  /\ notes' = Set(n, [notes[n] EXCEPT !.pc1 = "rejected",
                                      !.seen20 = FALSE, !.seen1 = FALSE])
  /\ UNCHANGED <<config, deleted, combatants, started, round, roundTasks>>

----------------------------------------------------------------------------
(* Hook 2: partitioning *)

\* Variant: the setting is used as it is.
UncappedCount == settings.partitionCount

\* Math.min(game.settings.get(..., "partitionCount"), 10)
partitionCount == Min(settings.partitionCount, PartitionCap)

\* newInitiative = rolledInitiative - (i * partitionOffset)
newInitiative(rolledInitiative, i) ==
  rolledInitiative - (i * settings.partitionOffset)

\* The indexes after i the creation loop creates an entry for:
\* for (i = 1; i < partitionCount; i++) if (newInitiative > 0)
Remaining(rolledInitiative, i) ==
  {j \in (i + 1)..(partitionCount - 1) : newInitiative(rolledInitiative, j) > 0}

\* Variant: cleanupPartitions selects the partition entries of every combatant.
everyPartition(originalCombatantId) ==
  {c \in combatants : c.originalId /= NoId /\ c.natural20Duplicate /= TRUE}

\* Variant: cleanupPartitions selects the natural 20 duplicate as well.
entriesToDelete(originalCombatantId) ==
  {c \in combatants : c.originalId = originalCombatantId}

\* cleanupPartitions: the entries selected for deletion
partitionsToDelete(originalCombatantId) ==
  {c \in combatants : c.originalId = originalCombatantId
                      /\ c.natural20Duplicate /= TRUE}

\* The entry created for index i of the loop
PartitionEntry(n, i) ==
  [id |-> PartitionId(n, i), actor |-> notes[n].actor,
   initiative |-> Scale * newInitiative(notes[n].bonuses, i),
   isPartition |-> TRUE, natural20Duplicate |-> FALSE,
   originalId |-> notes[n].cid, partitionIndex |-> i,
   natural20Applied |-> FALSE, natural1Applied |-> FALSE,
   nat20Name |-> FALSE, by |-> n]

\* Variant: the loop runs from the highest index down.
LoopDown(nt, i) ==
  LET left == (Remaining(nt.bonuses, 0) \ {m.partitionIndex : m \in nt.made})
                \ {i}
  IN IF left /= {}
     THEN [nt EXCEPT !.pc2 = "awaitCreate", !.i = SetMax(left)]
     ELSE [nt EXCEPT !.pc2 = "done", !.i = 0]

\* lines 230-257: the creation loop from index i on, up to the next await
\* of createEmbeddedDocuments (or the end of the handler)
LoopFrom(nt, i) ==
  IF Remaining(nt.bonuses, i) /= {}
  THEN [nt EXCEPT !.pc2 = "awaitCreate", !.i = SetMin(Remaining(nt.bonuses, i))]
  ELSE [nt EXCEPT !.pc2 = "done", !.i = 0]

\* Variant: the 50 ms timer of hook 2 is started again whenever it expires.
Timer2Restarted(n) ==
  /\ notes[n].pc2 = "pause50"
  /\ notes[n].pc2 /= "pause50"

\* The 50 ms timer of hook 2 expires after the 50 ms timers of the earlier
\* notifications.
Timer2Due(n) ==
  /\ notes[n].pc2 = "pause50"
  /\ \A m \in Earlier(n) : notes[m].pc2 /= "pause50"

\* lines 216-227: after the 50 ms pause, the start of cleanupPartitions, up
\* to the await of deleteEmbeddedDocuments (or, with nothing to delete, on
\* to the creation loop)
H2Plan(n) ==
  /\ Timer2Due(n)
  /\ LET nt == [notes[n] EXCEPT !.h1AtSync = notes[n].pc1]
         idsToDelete == {c.id : c \in partitionsToDelete(nt.cid)}
     IN notes' = Set(n,
          IF idsToDelete /= {}
          THEN [nt EXCEPT !.ids = idsToDelete, !.pc2 = "awaitDelete"]
          ELSE LoopFrom(nt, 0))
  /\ UNCHANGED <<config, deleted, combatants, started, round, roundTasks, rejects>>

\* The host applies combat.deleteEmbeddedDocuments("Combatant", idsToDelete);
\* the handler goes on to the creation loop
H2Deleted(n) ==
  /\ ~deleted
  /\ notes[n].pc2 = "awaitDelete"
  /\ combatants' = {c \in combatants : c.id \notin notes[n].ids}
  /\ notes' = Set(n, LoopFrom([notes[n] EXCEPT !.ids = {}], 0))
  /\ UNCHANGED <<config, deleted, started, round, roundTasks, rejects>>

\* The host rejects the deletion: cleanupPartitions has no try/catch, the
\* await at line 227 raises and the handler ends.
H2DeleteRejected(n) ==
  /\ notes[n].pc2 = "awaitDelete"
  /\ rejects < limits.rejects \/ deleted
  /\ rejects' = rejects + 1
  /\ notes' = Set(n, [notes[n] EXCEPT !.pc2 = "aborted", !.ids = {}])
  /\ UNCHANGED <<config, deleted, combatants, started, round, roundTasks>>

\* what the history of the handler records of the entry it created
Made(n) ==
  [partitionIndex |-> PartitionEntry(n, notes[n].i).partitionIndex,
   initiative |-> PartitionEntry(n, notes[n].i).initiative]

\* The host applies combat.createEmbeddedDocuments for index i; the handler
\* goes on with the loop
H2Created(n) ==
  /\ ~deleted
  /\ notes[n].pc2 = "awaitCreate"
  /\ combatants' = combatants \cup {PartitionEntry(n, notes[n].i)}
  /\ notes' = Set(n, LoopFrom([notes[n] EXCEPT !.made = @ \cup {Made(n)}],
                               notes[n].i))
  /\ UNCHANGED <<config, deleted, started, round, roundTasks, rejects>>

\* Variant: the rejection of a creation ends the handler.
H2CreateRejectedEnds(n) ==
  /\ notes[n].pc2 = "awaitCreate"
  /\ rejects < limits.rejects \/ deleted
  /\ rejects' = rejects + 1
  /\ notes' = Set(n, [notes[n] EXCEPT !.createRejected = TRUE,
                                      !.pc2 = "aborted", !.i = 0])
  /\ UNCHANGED <<config, deleted, combatants, started, round, roundTasks>>

\* The host rejects the creation: the catch at line 263 logs it and the
\* loop goes on with the next index
H2CreateRejected(n) ==
  /\ notes[n].pc2 = "awaitCreate"
  /\ rejects < limits.rejects \/ deleted
  /\ rejects' = rejects + 1
  /\ notes' = Set(n, LoopFrom([notes[n] EXCEPT !.createRejected = TRUE],
                               notes[n].i))
  /\ UNCHANGED <<config, deleted, combatants, started, round, roundTasks>>

----------------------------------------------------------------------------
(* Hook 3: natural 20 duplicate *)

\* The 300 ms timer of hook 3 expires after the 50 ms timer of hook 2 and
\* after the 300 ms timer of hook 1, which was started before it.
Timer3Due(n) ==
  /\ notes[n].pc3 = "pause300"
  /\ notes[n].pc2 /= "pause50"
  /\ notes[n].pc1 /= "pause300"
  /\ \A m \in Earlier(n) : NoTimer(m)

\* let isTurn1 = !combat.started || combat.round === 1
isTurn1 == ~started \/ round = 1

\* lines 289-305: after the 300 ms pause (the roll is a natural 20), the
\* round test
H3Turn(n) ==
  /\ Timer3Due(n)
  /\ notes' = Set(n, [notes[n] EXCEPT !.pc3 = IF isTurn1 THEN "pause200"
                                                         ELSE "done"])
  /\ UNCHANGED <<config, deleted, combatants, started, round, roundTasks, rejects>>

\* allRelatedCombatants
allRelatedCombatants(id) ==
  {c \in combatants : c.id = id \/ c.originalId = id}

\* 100 + Math.max(...allRelatedCombatants.map(c => c.initiative || 0))
highestInitiative(id) ==
  Scale * DuplicateBonus
    + SetMax({InitiativeOr0(c) : c \in allRelatedCombatants(id)})

\* combat.combatants.some(c => c.flags...natural20Duplicate === true)
hasNatural20Duplicate == \E c \in combatants : c.natural20Duplicate = TRUE

\* lines 308-335: the request of the duplicate, or none
Duplicate(nt) ==
  IF nt.cid \notin Ids THEN [nt EXCEPT !.pc3 = "done"]
  ELSE IF ~hasNatural20Duplicate /\ highestInitiative(nt.cid) > 0
  THEN [nt EXCEPT !.pc3 = "awaitCreate", !.value3 = highestInitiative(nt.cid)]
  ELSE [nt EXCEPT !.pc3 = "done"]

\* lines 305-335: after the 200 ms pause, up to the await of
\* createEmbeddedDocuments
H3Check(n) ==
  /\ notes[n].pc3 = "pause200"
  /\ notes' = Set(n, Duplicate(notes[n]))
  /\ UNCHANGED <<config, deleted, combatants, started, round, roundTasks, rejects>>

\* The natural 20 duplicate entry
DuplicateEntry(n) ==
  [id |-> DuplicateId(n), actor |-> notes[n].actor,
   initiative |-> notes[n].value3,
   isPartition |-> FALSE, natural20Duplicate |-> TRUE,
   originalId |-> notes[n].cid, partitionIndex |-> 0,
   natural20Applied |-> FALSE, natural1Applied |-> FALSE,
   nat20Name |-> TRUE, by |-> n]

\* The host applies combat.createEmbeddedDocuments for the duplicate
H3Created(n) ==
  /\ ~deleted
  /\ notes[n].pc3 = "awaitCreate"
  /\ combatants' = combatants \cup {DuplicateEntry(n)}
  /\ notes' = Set(n, [notes[n] EXCEPT !.pc3 = "created", !.value3 = 0])
  /\ UNCHANGED <<config, deleted, started, round, roundTasks, rejects>>

\* The host rejects the creation: the catch at line 349 logs it
H3CreateRejected(n) ==
  /\ notes[n].pc3 = "awaitCreate"
  /\ rejects < limits.rejects \/ deleted
  /\ rejects' = rejects + 1
  /\ notes' = Set(n, [notes[n] EXCEPT !.pc3 = "rejected", !.value3 = 0])
  /\ UNCHANGED <<config, deleted, combatants, started, round, roundTasks>>

----------------------------------------------------------------------------
(* combatRound hook *)

\* combat.combatants.filter(c => c.name.toLowerCase().includes("nat 20"))
nat20Duplicates == {c \in combatants : c.nat20Name}

\* lines 403-411, up to the await of deleteEmbeddedDocuments.  Combat.nextRound
\* calls the hook before it updates the combat: combat.round is still the
\* round that ends.
RoundTask ==
  [round |-> round,
   pc |-> IF ~isGM THEN "skip"
          ELSE IF ~settings.enabled THEN "skip"
          ELSE IF round >= 2 /\ nat20Duplicates /= {} THEN "awaitDelete"
          ELSE "done",
   ids |-> IF isGM /\ settings.enabled /\ round >= 2
           THEN {c.id : c \in nat20Duplicates} ELSE {}]

\* Combat.nextRound: Hooks.callAll("combatRound", ...), then the update
NextRound ==
  /\ ~deleted
  /\ started
  /\ round < limits.rounds
  /\ roundTasks' = roundTasks \cup {RoundTask}
  /\ round' = round + 1
  /\ UNCHANGED <<config, deleted, combatants, started, notes, rejects>>

\* The host applies combat.deleteEmbeddedDocuments("Combatant", idsToDelete)
R4Deleted(t) ==
  /\ ~deleted
  /\ t.pc = "awaitDelete"
  /\ combatants' = {c \in combatants : c.id \notin t.ids}
  /\ roundTasks' = (roundTasks \ {t}) \cup {[t EXCEPT !.pc = "done", !.ids = {}]}
  /\ notes' = Snapshot({c \in combatants : c.id \in t.ids})
  /\ UNCHANGED <<config, deleted, started, round, rejects>>

\* The host rejects the deletion: the await at line 411 raises
R4DeleteRejected(t) ==
  /\ t.pc = "awaitDelete"
  /\ rejects < limits.rejects \/ deleted
  /\ rejects' = rejects + 1
  /\ roundTasks' = (roundTasks \ {t}) \cup {[t EXCEPT !.pc = "aborted", !.ids = {}]}
  /\ UNCHANGED <<config, deleted, combatants, started, round, notes>>

----------------------------------------------------------------------------

Next ==
  \/ \E id \in Ids : \E total \in Totals(Get(id).actor) : UpdateInitiative(id, total)
  \/ \E m \in Keys : Replay(m)
  \/ \E id \in Ids : Rename(id)
  \/ \E id \in Ids : DeleteCombatant(id)
  \/ DeleteCombat
  \/ \E c \in Originals : ChangeModifier(c)
  \/ StartCombat
  \/ NextRound
  \/ \E n \in Keys : H1Adjust(n)
  \/ \E n \in Keys : H1Updated(n)
  \/ \E n \in Keys : H1UpdateRejected(n)
  \/ \E n \in Keys : H2Plan(n)
  \/ \E n \in Keys : H2Deleted(n)
  \/ \E n \in Keys : H2DeleteRejected(n)
  \/ \E n \in Keys : H2Created(n)
  \/ \E n \in Keys : H2CreateRejected(n)
  \/ \E n \in Keys : H3Turn(n)
  \/ \E n \in Keys : H3Check(n)
  \/ \E n \in Keys : H3Created(n)
  \/ \E n \in Keys : H3CreateRejected(n)
  \/ \E t \in roundTasks : R4Deleted(t)
  \/ \E t \in roundTasks : R4DeleteRejected(t)

Spec == Init /\ [][Next]_vars

\* A step of a handler: a timer of a pause expires, or the host answers a
\* request (it applies or rejects the write).
HandlerStep ==
  \/ \E n \in Keys : H1Adjust(n) \/ H1Updated(n) \/ H1UpdateRejected(n)
  \/ \E n \in Keys : H2Plan(n) \/ H2Deleted(n) \/ H2DeleteRejected(n)
  \/ \E n \in Keys : H2Created(n) \/ H2CreateRejected(n)
  \/ \E n \in Keys : H3Turn(n) \/ H3Check(n)
  \/ \E n \in Keys : H3Created(n) \/ H3CreateRejected(n)
  \/ \E t \in roundTasks : R4Deleted(t) \/ R4DeleteRejected(t)

\* The event loop runs every timer that expired and the host answers every
\* request; the user is under no obligation to act.
FairSpec == Spec /\ WF_vars(HandlerStep)

----------------------------------------------------------------------------
(* Properties *)

\* the handlers of the module act in this session
Active == isGM /\ settings.enabled

\* the static bonus of the subject of notification n, as its handlers read it
Bonus(n) == notes[n].bonuses

\* the plan for static bonus B and N turns: index i and initiative
\* B - i * partitionOffset for i = 1..N-1, the positive values only
PlanFor(B, N) ==
  {[partitionIndex |-> i,
    initiative |-> Scale * (B - i * settings.partitionOffset)] :
     i \in {j \in 1..(N - 1) : B - j * settings.partitionOffset > 0}}

\* hook 2 of notification n ran its synchronization to the end and the host
\* rejected none of its creations
Synchronized(n) == notes[n].pc2 = "done" /\ ~notes[n].createRejected

\* hook 1, 2, 3 of notification n has a write requested or applied
Wrote1(n) == notes[n].pc1 \in {"awaitUpdate", "written", "rejected"}
Wrote2(n) == notes[n].pc2 \in {"awaitDelete", "awaitCreate"} \/ notes[n].made /= {}
Wrote3(n) == notes[n].pc3 \in {"awaitCreate", "created", "rejected"}

\* hook 1, 2 of notification n has ended
Ended1(n) == notes[n].pc1 \notin {"pause300", "awaitUpdate"}
Ended2(n) == notes[n].pc2 \notin {"pause50", "awaitDelete", "awaitCreate"}

Latest(n) ==
  \A m \in Notes : notes[m].cid = notes[n].cid => notes[m].seq <= notes[n].seq

\* C3: once the synchronization of the latest roll of a combatant has ended
\* (and every earlier one with it, no write rejected), every partition entry
\* of the combatant was created by that synchronization, and their indexes
\* are those of its plan.
C3_ReRollReplaces ==
  \A n \in UserNotes :
    ( /\ rejects = 0
      /\ Latest(n)
      /\ notes[n].pc2 = "done"
      /\ \A m \in Notes : notes[m].cid = notes[n].cid => Ended2(m) )
    => /\ \A e \in combatants :
            (e.isPartition /\ e.originalId = notes[n].cid) => e.by = n
       /\ {e.partitionIndex : e \in {c \in combatants :
              c.isPartition /\ c.originalId = notes[n].cid}}
            = {x.partitionIndex : x \in notes[n].made}

\* the values the adjuster may leave for the roll of notification n
AdjustedOnce(n) ==
  {notes[n].total}
    \cup (IF IsNat20Raw(notes[n].total, Bonus(n))
          THEN {notes[n].total + Scale * settings.Natural20Boost} ELSE {})
    \cup (IF IsNat1Raw(notes[n].total, Bonus(n))
          THEN {notes[n].total - Scale * settings.Natural1Debuff} ELSE {})

\* C4: the stored initiative of an original combatant is always the total T
\* of one of its rolls, or T + boost for a natural 20, or T - debuff for a
\* natural 1: never T + 2*boost or T - 2*debuff, however often and in
\* whatever interleaving the notification is handled.
C4_AdjustedAtMostOnce ==
  \A e \in combatants :
    (e.id \in Originals /\ e.initiative /= Unset) =>
      \E n \in UserNotes :
        notes[n].cid = e.id /\ e.initiative \in AdjustedOnce(n)

\* C4 witness: a natural 20 notification and its replay have both been
\* handled, the first wrote the boost, and the stored initiative is T + boost.
C4_Witness ==
  \E n, m \in UserNotes :
    /\ notes[m].replayOf = n
    /\ IsNat20Raw(notes[n].total, Bonus(n))
    /\ notes[n].pc1 = "written"
    /\ Ended1(m)
    /\ notes[n].cid \in Ids
    /\ Get(notes[n].cid).initiative
         = notes[n].total + Scale * settings.Natural20Boost

\* the notifications of one roll: the notification r and its replays
SameRoll(r) == {n \in UserNotes : n = r \/ notes[n].replayOf = r}

\* C5: the adjuster writes at most once for a roll, and never for a replay.
C5_OneWritePerRoll ==
  \A r \in UserNotes :
    notes[r].replayOf = 0 =>
      /\ Cardinality({n \in SameRoll(r) : Wrote1(n)}) <= 1
      /\ \A n \in SameRoll(r) : Wrote1(n) => n = r

\* C6: in every step, a flag that is true on a combatant is true on it after
\* the step, if the combatant still exists.
C6_FlagsMonotonic ==
  [][\A e \in combatants : \A f \in combatants' :
       f.id = e.id =>
         /\ e.natural20Applied => f.natural20Applied
         /\ e.natural1Applied => f.natural1Applied]_vars

\* C6 witness: a combatant carries both flags (the second was set while the
\* first was true).
C6_Witness ==
  \E e \in combatants : e.natural20Applied /\ e.natural1Applied

\* C7: the combat holds at most one entry tagged natural20Duplicate.
C7_AtMostOneDuplicate ==
  Cardinality({e \in combatants : e.natural20Duplicate}) <= 1

\* C8: a notification whose subject is a partition entry or a natural 20
\* duplicate makes no handler request a write.
C8_NoRecursiveGeneration ==
  \A n \in Notes :
    notes[n].cid \notin Originals =>
      ~Wrote1(n) /\ ~Wrote2(n) /\ ~Wrote3(n)

\* C9: when the adjuster writes for a notification, the synchronization of
\* that notification has not started before the write was applied.
C9_AdjustedBeforePartitioned ==
  \A n \in Notes :
    Wrote1(n) => notes[n].h1AtSync \in {"", "written"}

\* C10: when the only roll of an original combatant is a natural 20 (as hook
\* 1 classifies it) and hook 1 has ended without a rejected write, it has
\* written T + boost together with natural20Applied.
C10_BoostWritten ==
  \A n \in UserNotes :
    ( /\ Active
      /\ notes[n].cid \in Originals
      /\ \A m \in UserNotes : notes[m].cid = notes[n].cid => m = n
      /\ IsNat20Raw(notes[n].total, Bonus(n))
      /\ Ended1(n)
      /\ notes[n].pc1 /= "rejected" )
    => /\ notes[n].pc1 = "written"
       /\ notes[n].flag1 = "natural20Applied"
       /\ notes[n].value1 = notes[n].total + Scale * settings.Natural20Boost
       /\ \E e \in combatants : e.id = notes[n].cid /\ e.natural20Applied

\* C11: when the only roll of an original combatant is a natural 1 (as hook 1
\* classifies it) and hook 1 has ended without a rejected write, it has
\* written T - debuff together with natural1Applied, and neither the
\* notification nor its follow-up makes hook 3 request a duplicate.
C11_DebuffWritten ==
  \A n \in UserNotes :
    ( /\ Active
      /\ notes[n].cid \in Originals
      /\ \A m \in UserNotes : notes[m].cid = notes[n].cid => m = n
      /\ IsNat1Raw(notes[n].total, Bonus(n))
      /\ Ended1(n)
      /\ notes[n].pc1 /= "rejected" )
    => /\ notes[n].pc1 = "written"
       /\ notes[n].flag1 = "natural1Applied"
       /\ notes[n].value1 = notes[n].total - Scale * settings.Natural1Debuff
       /\ \E e \in combatants : e.id = notes[n].cid /\ e.natural1Applied
       /\ ~Wrote3(n)
       /\ ~Wrote3(FollowUp(n))

\* the roll a notification stems from: itself, or for the follow-up of a
\* hook 1 write the notification hook 1 answered
Roll(n) == IF n \in UserKeys THEN n ELSE n - MaxEvents

\* C12: every natural20Duplicate entry stands 100 above the adjusted
\* initiative T + boost of the combatant whose roll made it (the partition
\* entries all lie below that value), and its originalId is that original
\* combatant.
C12_DuplicateAboveAdjusted ==
  \A d \in combatants :
    d.natural20Duplicate =>
      /\ d.originalId \in Originals
      /\ d.originalId = notes[Roll(d.by)].cid
      /\ d.initiative = Scale * DuplicateBonus + notes[Roll(d.by)].total
                          + Scale * settings.Natural20Boost

\* C13: whenever the creation of a natural20Duplicate entry is applied, the
\* notification that made it classifies as natural 20, the combat is not
\* started or in round 1, and the combat holds no natural20Duplicate entry
\* yet.
C13_CreatedOnlyInRoundOne ==
  [][\A n \in Keys :
       (notes[n].pc3 = "awaitCreate" /\ notes'[n].pc3 = "created") =>
         /\ IsNat20Rounded(notes[n].total, Bonus(n))
         /\ ~started \/ round = 1
         /\ \A c \in combatants : ~c.natural20Duplicate]_vars

\* C14: when the combatRound handler of an advance to a round >= 2 completes
\* in the GM session with the module enabled, the combat holds no
\* natural20Duplicate entry, whatever the names of the entries are.
C14_NoDuplicateAfterRoundAdvance ==
  [][\A t \in roundTasks' :
       ( /\ Active
         /\ t \notin roundTasks
         /\ t.pc = "done"
         /\ t.round + 1 >= 2 )
       => \A c \in combatants' : ~c.natural20Duplicate]_vars

\* C15: a step of the combatRound handler (its run up to the await, and the
\* deletion it requested being applied or rejected) leaves every entry that
\* is not tagged natural20Duplicate in the combat, unchanged, whatever its
\* name is.
C15_RoundAdvanceKeepsOthers ==
  [][roundTasks' /= roundTasks =>
       \A c \in combatants : ~c.natural20Duplicate => c \in combatants']_vars

\* C16: with the setting enabled false no handler requests a write: no
\* update by hook 1, no deletion or creation by hook 2, no creation by
\* hook 3, no deletion by the combatRound handler.
C16_DisabledWritesNothing ==
  ~settings.enabled =>
    /\ \A n \in Notes : ~Wrote1(n) /\ ~Wrote2(n) /\ ~Wrote3(n)
    /\ \A t \in roundTasks : t.pc = "skip"
    /\ \A c \in combatants : c.by = 0

\* C17: in a session whose user is not GM no handler requests a write: no
\* update by hook 1, no deletion or creation by hook 2, no creation by
\* hook 3, no deletion by the combatRound handler.
C17_OnlyGMWrites ==
  ~isGM =>
    /\ \A n \in Notes : ~Wrote1(n) /\ ~Wrote2(n) /\ ~Wrote3(n)
    /\ \A t \in roundTasks : t.pc = "skip"
    /\ \A c \in combatants : c.by = 0

\* C17 witness: a session that is not GM, module enabled, has handled the
\* notification of a natural-20 roll of a combatant above the threshold and
\* a round advance in round 2, with an entry named "nat 20" in the combat.
C17_Witness ==
  /\ ~isGM
  /\ settings.enabled
  /\ \E n \in UserNotes :
       /\ IsNat20Rounded(notes[n].total, Bonus(n))
       /\ Bonus(n) >= settings.targetInitiative
       /\ notes[n].pc3 = "skip"
  /\ \E t \in roundTasks : t.round >= 2
  /\ \E c \in combatants : c.nat20Name

\* C18: every notification that stems from a write of the module carries
\* fromPartition, and no hook requests a write for a notification that
\* carries it, whatever Natural20Boost and Natural1Debuff are.
C18_TaggedWritesIgnored ==
  \A n \in Notes :
    /\ n \notin UserKeys => notes[n].fromPartition
    /\ notes[n].fromPartition => ~Wrote1(n) /\ ~Wrote2(n) /\ ~Wrote3(n)

\* the entries hook 2 of notification n plans
Plan(n) == PlanFor(Bonus(n), Min(settings.partitionCount, PartitionCap))

\* C19: when the host rejects the creation of the planned entry with index
\* i (a rejection that is not one of hook 1's or hook 3's write), hook 2 does
\* not end by the failure: it goes on to request the planned
\* entry with the next higher index, or has completed when there is none;
\* what it created before stays recorded.
C19_CreateFailureContinues ==
  [][\A n \in Keys :
       ( /\ notes[n].pc2 = "awaitCreate"
         /\ rejects' = rejects + 1
         /\ notes'[n] /= notes[n]
         /\ notes'[n].pc1 = notes[n].pc1
         /\ notes'[n].pc3 = notes[n].pc3 )
       => LET later == {p.partitionIndex : p \in
                          {q \in Plan(n) : q.partitionIndex > notes[n].i}}
          IN /\ notes'[n].made = notes[n].made
             /\ IF later = {}
                THEN notes'[n].pc2 = "done"
                ELSE /\ notes'[n].pc2 = "awaitCreate"
                     /\ notes'[n].i = SetMin(later)]_vars

\* C19 witness: a hook 2 whose creation of one planned entry was rejected
\* has completed and has created a planned entry with a higher index.
C19_Witness ==
  \E n \in Notes :
    /\ notes[n].createRejected
    /\ notes[n].pc2 = "done"
    /\ \E p \in Plan(n) \ notes[n].made :
         \E q \in notes[n].made : q.partitionIndex > p.partitionIndex

\* C20: when the host rejects the deletion hook 2 requested in its cleanup
\* (a rejection that is not one of hook 1's or hook 3's write), the handler
\* does not end by the failure: it goes on to the creation loop and requests
\* the first planned entry, or has completed when nothing is planned.
C20_CleanupFailureContinues ==
  [][\A n \in Keys :
       ( /\ notes[n].pc2 = "awaitDelete"
         /\ rejects' = rejects + 1
         /\ notes'[n] /= notes[n]
         /\ notes'[n].pc1 = notes[n].pc1
         /\ notes'[n].pc3 = notes[n].pc3 )
       => IF Plan(n) = {}
          THEN notes'[n].pc2 = "done"
          ELSE /\ notes'[n].pc2 = "awaitCreate"
               /\ notes'[n].i = SetMin({p.partitionIndex : p \in Plan(n)})]_vars

\* the classification as the specification states it: the d20 is T - M,
\* rounded
SpecNat20(total, mod) ==
  Round(total - Scale * mod) >= 20 /\ Round(total - Scale * mod) < 21
SpecNat1(total, mod) ==
  Round(total - Scale * mod) >= 1 /\ Round(total - Scale * mod) < 2

\* hook 1, 3 of notification n went past its classification
Classified1(n) == notes[n].pc1 \in {"pause300", "awaitUpdate", "written", "rejected"}
Classified3(n) == notes[n].pc3 \in {"pause300", "pause200", "awaitCreate", "created", "rejected"}

\* C21: hook 1 goes on to adjust only for a roll with 20 <= round(T - M) < 21
\* or 1 <= round(T - M) < 2, and it ends without a write for such a roll only
\* when the flag of that roll is already set on the combatant; hook 3 goes
\* on only for a roll with 20 <= round(T - M) < 21.
C21_RoundedClassification ==
  \A n \in Notes :
    /\ Classified1(n) =>
         SpecNat20(notes[n].total, Bonus(n)) \/ SpecNat1(notes[n].total, Bonus(n))
    /\ (notes[n].pc1 = "done" /\ SpecNat20(notes[n].total, Bonus(n))) =>
         \A e \in combatants : e.id = notes[n].cid => e.natural20Applied
    /\ (notes[n].pc1 = "done" /\ SpecNat1(notes[n].total, Bonus(n))) =>
         \A e \in combatants : e.id = notes[n].cid => e.natural1Applied
    /\ Classified3(n) => SpecNat20(notes[n].total, Bonus(n))

C23_EmptyPlanLeavesNoPartition ==
  \A n \in UserNotes :
    ( /\ Active
      /\ ~deleted
      /\ notes[n].cid \in Originals
      /\ Latest(n)
      /\ \A m \in Notes : ~Pending(m)
      /\ Bonus(n) < settings.targetInitiative )
    => \A c \in combatants : ~(c.isPartition /\ c.originalId = notes[n].cid)

\* the partition entries in the combat that notification n created
CreatedBy(n) == {c \in combatants : c.isPartition /\ c.by = n}

\* C24: whatever the partitionCount setting is, the hook 2 of one
\* notification creates at most cap - 1 = 9 partition entries, with indexes
\* below the cap.
C24_AtMostNineCreated ==
  \A n \in Notes :
    /\ Cardinality(notes[n].made) <= PartitionCap - 1
    /\ Cardinality(CreatedBy(n)) <= PartitionCap - 1
    /\ \A c \in CreatedBy(n) : c.partitionIndex < PartitionCap

\* C24 witness: with the setting above the cap a notification has created
\* nine partition entries and its hook 2 has ended.
C24_Witness ==
  \E n \in Notes :
    /\ settings.partitionCount > PartitionCap
    /\ Cardinality(CreatedBy(n)) = PartitionCap - 1
    /\ notes[n].pc2 = "done"

\* C25: when hook 1 comes back from its pause for a roll that classifies as
\* natural 20 (natural 1) and the combatant's natural20Applied
\* (natural1Applied) flag is set, it ends without requesting a write: the
\* combatants are left as they are, and hook 2 of that notification is not
\* skipped.
C25_FlaggedReRollNotAdjusted ==
  [][\A n \in Keys :
       ( /\ notes[n].pc1 = "pause300"
         /\ notes'[n].pc1 /= "pause300"
         /\ \/ /\ IsNat20Raw(notes[n].total, Bonus(n))
               /\ Subject(notes[n]).natural20Applied
            \/ /\ IsNat1Raw(notes[n].total, Bonus(n))
               /\ Subject(notes[n]).natural1Applied )
       => /\ notes'[n].pc1 = "done"
          /\ combatants' = combatants
          /\ notes'[n].pc2 \notin {"skip", "none"}]_vars

\* C25 witness: a combatant above the threshold whose natural20Applied flag
\* is set was re-rolled to a natural 20 again: hook 1 ended without a
\* write, the stored initiative is the new total, and hook 2 has
\* synchronized the partitions for that notification.
C25_Witness ==
  \E n \in UserNotes :
    /\ IsNat20Raw(notes[n].total, Bonus(n))
    /\ notes[n].pc1 = "done"
    /\ notes[n].pc2 = "done"
    /\ notes[n].made /= {}
    /\ \E e \in combatants :
         /\ e.id = notes[n].cid
         /\ e.natural20Applied
         /\ e.initiative = notes[n].total

\* the d20 face of the roll of notification n: the total less the static
\* bonus and the tie-breaker fraction the host added
Face(n) ==
  (notes[n].total - Scale * Bonus(n) - (IF tieBreaker THEN Bonus(n) ELSE 0))
    \div Scale

\* C26: when the only roll of an original combatant has a d20 face other
\* than 20 and 1 and its handlers have ended, the stored initiative is the
\* rolled total, both flags are unset, neither an adjustment nor a natural
\* 20 duplicate was requested for the roll, and a synchronization that ran
\* to the end created exactly the entries of the plan.
C26_OrdinaryRollUnadjusted ==
  \A n \in UserNotes :
    ( /\ Active
      /\ notes[n].cid \in Originals \cap Ids
      /\ \A m \in UserNotes : notes[m].cid = notes[n].cid => m = n
      /\ Face(n) \notin {1, 20}
      /\ ~Pending(n) )
    => /\ Get(notes[n].cid).initiative = notes[n].total
       /\ ~Get(notes[n].cid).natural20Applied
       /\ ~Get(notes[n].cid).natural1Applied
       /\ ~Wrote1(n)
       /\ ~Wrote3(n)
       /\ Synchronized(n) => notes[n].made = Plan(n)

\* C27: hook 2 requests the creation of an index only when it waits for no
\* other write, the index is above every index it requested or created
\* before, and it requests its deletion only as its first write; the
\* entries it created have initiatives that fall as the index rises.
C27_AscendingOneAtATime ==
  [][\A n \in Keys :
       /\ ( /\ notes'[n].pc2 = "awaitCreate"
            /\ notes[n].pc2 /= "awaitCreate" \/ notes'[n].i /= notes[n].i )
          => /\ notes'[n].i > notes[n].i
             /\ \A m \in notes'[n].made : m.partitionIndex < notes'[n].i
             /\ notes'[n].ids = {}
       /\ (notes'[n].pc2 = "awaitDelete" /\ notes[n].pc2 /= "awaitDelete")
          => notes[n].pc2 = "pause50" /\ notes[n].made = {}
       /\ \A p, q \in notes'[n].made :
            p.partitionIndex < q.partitionIndex => p.initiative > q.initiative]_vars

\* C27 witness: a hook 2 that deleted the entries of the previous roll has
\* created the first entry of its plan and waits for the creation of the
\* second.
C27_Witness ==
  \E n \in Notes :
    /\ notes[n].pc2 = "awaitCreate"
    /\ Cardinality(notes[n].made) >= 1
    /\ \E m \in Notes : /\ notes[m].cid = notes[n].cid
                        /\ notes[m].seq < notes[n].seq
                        /\ notes[m].made /= {}
                        /\ CreatedBy(m) = {}

\* C28: the cleanup of hook 2 for combatant C selects exactly the entries
\* whose originalId is C.id and that are not tagged natural20Duplicate, and
\* when the host applies it only such entries leave the combat: neither C
\* nor a natural 20 duplicate does.
C28_CleanupDeletesOwnPartitions ==
  [][\A n \in Keys :
       /\ (notes'[n].pc2 = "awaitDelete" /\ notes[n].pc2 /= "awaitDelete")
          => notes'[n].ids =
               {c.id : c \in {d \in combatants :
                                /\ d.originalId = notes[n].cid
                                /\ ~d.natural20Duplicate}}
       /\ ( /\ notes[n].pc2 = "awaitDelete"
            /\ notes'[n].pc2 /= "awaitDelete"
            /\ rejects' = rejects )
          => /\ combatants' \subseteq combatants
             /\ \A c \in combatants \ combatants' :
                  /\ c.originalId = notes[n].cid
                  /\ c.id /= notes[n].cid
                  /\ ~c.natural20Duplicate]_vars

\* C28 witness: the cleanup of a re-roll has removed the partition entries
\* of the previous roll of a combatant, and the natural 20 duplicate made
\* for that combatant and the combatant itself are in the combat.
C28_Witness ==
  \E n, m \in Notes :
    /\ notes[m].cid = notes[n].cid
    /\ notes[m].seq < notes[n].seq
    /\ notes[m].made /= {}
    /\ CreatedBy(m) = {}
    /\ notes[n].pc2 \in {"awaitCreate", "done"}
    /\ notes[n].cid \in Ids
    /\ \E c \in combatants :
         c.natural20Duplicate /\ c.originalId = notes[n].cid

\* A write that the handlers of notification n requested is applied in this
\* step: the update of hook 1, the deletion or a creation of hook 2, the
\* creation of hook 3.
WriteApplied(n) ==
  /\ rejects' = rejects
  /\ \/ notes[n].pc1 = "awaitUpdate" /\ notes'[n].pc1 /= "awaitUpdate"
     \/ notes[n].pc2 = "awaitDelete" /\ notes'[n].pc2 /= "awaitDelete"
     \/ notes[n].pc2 = "awaitCreate" /\ notes'[n].made /= notes[n].made
     \/ notes[n].pc3 = "awaitCreate" /\ notes'[n].pc3 /= "awaitCreate"

\* C29: a write of the handlers of a notification for combatant C leaves in
\* the combat, unchanged, every entry that is neither C nor an entry whose
\* originalId is C.id.
C29_OtherCombatantsUnchanged ==
  [][\A n \in Keys :
       WriteApplied(n)
         => \A c \in combatants :
              (c.id /= notes[n].cid /\ c.originalId /= notes[n].cid)
                => c \in combatants']_vars

\* C29 witness: the handlers of a notification for one original combatant
\* have adjusted it and created its partitions while the partitions of the
\* other original combatant, made before, are in the combat.
C29_Witness ==
  \E n, m \in Notes :
    /\ notes[m].seq < notes[n].seq
    /\ notes[m].cid \in Originals \cap Ids
    /\ notes[n].cid \in (Originals \cap Ids) \ {notes[m].cid}
    /\ CreatedBy(m) /= {}
    /\ CreatedBy(n) /= {}
    /\ notes[n].pc2 = "done"
    /\ notes[n].pc1 = "written"

\* After a settle pause a handler of notification n issues a request to the
\* host in this step: the update of hook 1 (after 300 ms), the deletion or
\* the first creation of hook 2 (after 50 ms), the creation of hook 3
\* (after 200 ms).
IssuesAfterPause(n) ==
  \/ notes[n].pc1 = "pause300" /\ notes'[n].pc1 = "awaitUpdate"
  \/ notes[n].pc2 = "pause50"
       /\ notes'[n].pc2 \in {"awaitDelete", "awaitCreate"}
  \/ notes[n].pc3 = "pause200" /\ notes'[n].pc3 = "awaitCreate"

\* C30: once the combat, or the original combatant of a notification, is
\* deleted, a handler of that notification that was suspended in a pause
\* issues no request when the pause ends.
C30_NoRequestAfterDeletion ==
  [][\A n \in Notes :
       (deleted \/ notes[n].cid \in Originals \ Ids)
         => ~IssuesAfterPause(n)]_vars

\* C31: once a combatRound handler that ran in a round >= 2 (GM session,
\* module enabled, no name edited) has completed, the combat holds no
\* natural20Duplicate entry in any later state.
C31_NoDuplicateAfterRoundOne ==
  ( /\ Active
    /\ Renamed = {}
    /\ \E t \in roundTasks : t.round >= 2 /\ t.pc \in {"done", "skip"} )
  => \A c \in combatants : ~c.natural20Duplicate

\* C32: a notification for a combatant whose actor has no initiative
\* modifier makes hook 1 request no adjustment and hook 3 no duplicate,
\* whatever the total is.
C32_AbsentModifierNeitherCase ==
  \A n \in Notes :
    (notes[n].bonuses = 0 /\ initMod[notes[n].actor] = NoMod)
      => ~Wrote1(n) /\ ~Wrote3(n)

\* C33: no handler reads a setting that the init hook did not register: no
\* game.settings.get of a handler raises.
C33_ReadsOnlyRegistered ==
  \A n \in Notes : notes[n].pc1 /= "throw"

\* C34: the combat never holds two partition entries with the same
\* originalId and the same partitionIndex (every notification being a
\* roll of its own, none delivered twice).
C34_OnePartitionPerIndex ==
  (\A n \in Notes : notes[n].replayOf = 0)
    => \A c, d \in combatants :
         ( /\ c.isPartition /\ d.isPartition
           /\ c.originalId = d.originalId
           /\ c.partitionIndex = d.partitionIndex )
         => c = d

\* C35: where hook 1 reaches its classification (GM session, module enabled,
\* both adjustment settings registered, a user's update of an original
\* combatant), hook 3 requests a natural 20 duplicate for a notification only
\* if hook 1 classifies the same notification as a natural 20.
C35_SameClassification ==
  \A n \in UserNotes :
    ( /\ Active
      /\ CanGet("Natural20Boost") /\ CanGet("Natural1Debuff")
      /\ notes[n].cid \in Originals
      /\ Wrote3(n) )
    => IsNat20Raw(notes[n].total, Bonus(n))

\* no handler is suspended: no timer runs and no request awaits its answer
Quiet ==
  /\ \A n \in Keys : ~Pending(n)
  /\ \A t \in roundTasks : t.pc /= "awaitDelete"

\* C36: when the timers fire and the host answers, every behaviour reaches a
\* state from which no handler is suspended any more (so no write of the
\* module follows).
C36_Quiescence == <>[]Quiet

\* C36 witness: the handlers of a roll and of the follow-up notification of
\* its adjustment have written and created, a round handler has run, and no
\* handler is suspended.
C36_Witness ==
  /\ Quiet
  /\ \E n \in UserNotes :
       /\ notes[n].pc1 = "written"
       /\ notes[FollowUp(n)].kind /= "none"
       /\ notes[n].made /= {}
  /\ \E c \in combatants : c.natural20Duplicate
  /\ roundTasks /= {}

C38_OriginalAbovePartitions ==
  \A n \in UserNotes :
    ( /\ Active
      /\ settings.partitionOffset > 0
      /\ settings.Natural1Debuff >= 0
      /\ notes[n].cid \in Originals \cap Ids
      /\ \A m \in UserNotes : notes[m].cid = notes[n].cid => m = n
      /\ \A m \in UserNotes : notes[m].cid \in Originals
      /\ \A m \in Keys : ~Pending(m)
      /\ rejects = 0 /\ ~deleted /\ Changed = {} )
    => \A p \in combatants :
         (p.isPartition /\ p.originalId = notes[n].cid)
           => Get(notes[n].cid).initiative > p.initiative

====
